---- MODULE Spec2Model ----
(***************************************************************************)
(* Learning from interpretations (learning/lfi.py): the LFIProblem object, *)
(* its program rewriter (__iter__ / _process_atom), the example compiler   *)
(* (_process_examples / _compile_examples), one learning round             *)
(* (_evaluate_examples / _update / step) and the convergence loop (run).   *)
(*                                                                         *)
(* The grounder, the knowledge compiler and the evaluator are library code *)
(* outside this repository: what they return is chosen nondeterministically*)
(* from bounded sets.                                                      *)
(*                                                                         *)
(* Numbers.  Probabilities and weights are exact rationals <<num, den>>    *)
(* in lowest terms with den > 0 (the code uses doubles).  Scores are       *)
(* "big" numbers [hi, lo] standing for hi * 10^10 + lo, because the loop's *)
(* sentinel -1e10 does not fit the model checker's integers.               *)
(***************************************************************************)
EXTENDS Integers, Sequences, FiniteSets, TLC

VARIABLES
    source,        \* self.source: the clauses of the model to learn
    names,         \* self.names
    queries,       \* self.queries
    weights,       \* self.weights
    examples,      \* self.examples
    compiled,      \* self._compiled_examples (None until prepare() succeeds)
    max_iter,      \* self.max_iter
    min_improv,    \* self.min_improv
    iteration,     \* self.iteration
    delta,         \* run(): local delta
    prev_score,    \* run(): local prev_score
    results,       \* step(): the list _evaluate_examples returned last
    pc,            \* where the caller of the object stands
    returned,      \* what run_lfi returned (None until it returns)
    programs,      \* the clause sequence each traversal of __iter__ yielded
    groups,        \* what _process_examples returned last (None before)
    ungroundable,  \* environment: the examples the grounder raises on
    evaluated,     \* history: what the evaluator returned in the last round
    rounds,        \* history: number of step() calls that returned a score
    firstHit       \* history: first round whose delta <= min_improv (0: none)

vars == <<source, names, queries, weights, examples, compiled, max_iter,
          min_improv, iteration, delta, prev_score, results, pc, returned,
          programs, groups, ungroundable, evaluated, rounds, firstHit>>

None == [none |-> TRUE]

-----------------------------------------------------------------------------
(* Bounds of the model                                                     *)

MaxAtoms == 2          \* head atoms in a source program
MaxTraversals == 2     \* stand-alone traversals of the rewritten program
MaxExamples == 2       \* examples handed to the learner
MaxIterBound == 5      \* largest max_iter tried
MaxNegLog == 2         \* evidence probabilities are 0 or exp(-k), k <= this
MaxNames == 2          \* ground query atoms in one compiled example

-----------------------------------------------------------------------------
(* Exact rationals                                                         *)

RECURSIVE Gcd(_, _)
Gcd(a, b) == IF b = 0 THEN a ELSE Gcd(b, a % b)

Abs(x) == IF x < 0 THEN -x ELSE x

Rat(n, d) ==
    LET g == Gcd(Abs(n), Abs(d))
        s == IF d < 0 THEN -1 ELSE 1
    IN  <<s * (n \div g), s * (d \div g)>>

RatAdd(x, y) ==
    LET g == Gcd(x[2], y[2])
        d == (x[2] \div g) * y[2]
    IN  Rat(x[1] * (d \div x[2]) + y[1] * (d \div y[2]), d)

RatDivInt(x, n) == Rat(x[1], x[2] * n)

RatLess(x, y) == x[1] * y[2] < y[1] * x[2]

RatZero == <<0, 1>>

\* hi * 10^10 + lo, with lo far smaller than 10^10 in every state reached
Big(hi, lo) == [hi |-> hi, lo |-> lo]
BigSub(x, y) == Big(x.hi - y.hi, x.lo - y.lo)
BigPositive(d) == d.hi > 0 \/ (d.hi = 0 /\ d.lo > 0)
BigGreater(x, y) == BigPositive(BigSub(x, y))

-----------------------------------------------------------------------------
(* Terms of the program representation                                     *)

Var == [type |-> "Var"]
Constant(v) == [type |-> "Constant", value |-> v]
IsConstant(t) == t.type = "Constant"

\* atom.probability: None, a constant such as 0.3, or t(args)
NoProbability == [functor |-> "None", args |-> <<>>]
Probability(f, args) == [functor |-> f, args |-> args]

Term(f, args, p) == [functor |-> f, args |-> args, probability |-> p]
WithProbability(atom, p) == [atom EXCEPT !.probability = p]
Arity(atom) == Len(atom.args)

\* 'lfi_fact_%d' % count : the functor keeps the formatted number as a field
LfiFactFunctor(i) == [name |-> "lfi_fact", suffix |-> i]
\* Term('lfi', Constant(count))
LfiProb(i) == Probability("lfi", <<Constant(i)>>)

Clause(head, body) == [kind |-> "Clause", heads |-> <<head>>, body |-> body]
AnnotatedDisjunction(heads, body) ==
    [kind |-> "AnnotatedDisjunction", heads |-> heads, body |-> body]
Fact(atom) == [kind |-> "Term", heads |-> <<atom>>, body |-> "true"]
Query(atom) == [kind |-> "query", heads |-> <<atom>>, body |-> "true"]


-----------------------------------------------------------------------------
(* The rewriter: LFIProblem._process_atom and LFIProblem.__iter__          *)

\* float(start_value): the model's constants already are rationals
Float(c) == c.value

\* The object's fields a traversal reads and writes, the remaining draws of
\* random.random(), the clauses yielded so far and whether an assertion
\* failed.
RewriteState(nm, qs, ws, rnd) ==
    [names |-> nm, queries |-> qs, weights |-> ws, rnd |-> rnd,
     out |-> <<>>, ok |-> TRUE]

\* faulty variant: slots numbered from 1
CountFromOne(ws) == Len(ws) + 1

\* self.count
Count(ws) == Len(ws)

IsLearnable(atom) ==
    /\ atom.probability # NoProbability
    /\ atom.probability.functor = "t"

\* _process_atom: [atom, extra, st]; st.ok = FALSE when the assert on the
\* arity of t(...) fails (nothing has been appended at that point).
ProcessAtom(atom, st) ==
    IF IsLearnable(atom)
    THEN IF Len(atom.probability.args) # 1
         THEN [atom |-> atom, extra |-> <<>>, st |-> [st EXCEPT !.ok = FALSE]]
         ELSE LET start_value == atom.probability.args[1]
                  count == Count(st.weights)
                  lfi_fact == Term(LfiFactFunctor(count), atom.args, NoProbability)
                  lfi_prob == LfiProb(count)
                  replacement == WithProbability(lfi_fact, lfi_prob)
                  extra_clauses ==
                      << Clause(WithProbability(atom, NoProbability), lfi_fact),
                         Query(lfi_fact) >>
                  w == IF IsConstant(start_value)
                       THEN Float(start_value)
                       ELSE Head(st.rnd)
              IN  [atom  |-> replacement,
                   extra |-> extra_clauses,
                   st    |-> [st EXCEPT
                                !.weights = Append(@, w),
                                !.rnd = IF IsConstant(start_value) THEN @ ELSE Tail(@),
                                !.queries = Append(@, lfi_fact),
                                !.names = Append(@, atom)]]
    ELSE [atom |-> atom, extra |-> <<>>, st |-> st]

\* the loop over clause.heads of an annotated disjunction
RECURSIVE ProcessHeads(_, _, _, _, _)
ProcessHeads(heads, j, new_heads, extra_clauses_all, st) ==
    IF j > Len(heads) \/ ~st.ok
    THEN [new_heads |-> new_heads, extra |-> extra_clauses_all, st |-> st]
    ELSE LET r == ProcessAtom(heads[j], st)
         IN  ProcessHeads(heads, j + 1, Append(new_heads, r.atom),
                          extra_clauses_all \o r.extra, r.st)

IsQueryDecl(atom) == atom.functor = "query" /\ Arity(atom) = 1

\* the body of the for loop of __iter__ for one clause of the source
RewriteClause(clause, st) ==
    IF clause.kind = "Clause"
    THEN IF IsQueryDecl(clause.heads[1])
         THEN st
         ELSE LET r == ProcessAtom(clause.heads[1], st)
              IN  IF ~r.st.ok THEN r.st
                  ELSE [r.st EXCEPT
                          !.out = (@ \o <<Clause(r.atom, clause.body)>>) \o r.extra]
    ELSE IF clause.kind = "AnnotatedDisjunction"
    THEN LET r == ProcessHeads(clause.heads, 1, <<>>, <<>>, st)
         IN  IF ~r.st.ok THEN r.st
             ELSE [r.st EXCEPT
                     !.out = (@ \o <<AnnotatedDisjunction(r.new_heads, clause.body)>>)
                             \o r.extra]
    ELSE IF IsQueryDecl(clause.heads[1])
         THEN st
         ELSE LET r == ProcessAtom(clause.heads[1], st)
              IN  IF ~r.st.ok THEN r.st
                  ELSE [r.st EXCEPT !.out = (@ \o <<Fact(r.atom)>>) \o r.extra]

\* __iter__ driven to its end by the consumer (or to the failed assert)
RECURSIVE Iter(_, _, _)
Iter(src, i, st) ==
    IF i > Len(src) \/ ~st.ok
    THEN st
    ELSE Iter(src, i + 1, RewriteClause(src[i], st))

\* random.random(): the draws a traversal may make
RandomDraws == { <<1, 4>>, <<3, 4>> }

RECURSIVE NumHeads(_)
NumHeads(src) ==
    IF src = <<>> THEN 0 ELSE Len(Head(src).heads) + NumHeads(Tail(src))

\* an atom whose start value a traversal may have to draw
DrawsStart(atom) ==
    /\ IsLearnable(atom)
    /\ Len(atom.probability.args) >= 1
    /\ ~IsConstant(atom.probability.args[1])

\* no traversal calls random.random() more often than this
RECURSIVE MaxDraws(_)
MaxDraws(src) ==
    IF src = <<>> THEN 0
    ELSE Len(SelectSeq(Head(src).heads, DrawsStart)) + MaxDraws(Tail(src))

\* One full traversal of __iter__ by a consumer of the rewritten program.
Rewrite(rnd) ==
    LET st == Iter(source, 1, RewriteState(names, queries, weights, rnd))
    IN  /\ names' = st.names
        /\ queries' = st.queries
        /\ weights' = st.weights
        /\ programs' = Append(programs, [clauses |-> st.out, completed |-> st.ok])

Traverse ==
    /\ pc = "constructed"
    /\ Len(programs) < MaxTraversals
    /\ \E rnd \in [1..MaxDraws(source) -> RandomDraws] : Rewrite(rnd)
    /\ UNCHANGED <<source, examples, compiled, max_iter, min_improv, iteration,
                   delta, prev_score, results, pc, returned, groups,
                   ungroundable, evaluated, rounds, firstHit>>

-----------------------------------------------------------------------------
(* The example compiler: _process_examples and _compile_examples           *)

\* An example is a sequence of pairs <<atom, value>>.  Evidence atoms are
\* numbered; the number is the atom's place in the order sorted() uses.
ValueRank(v) == IF v = "false" THEN 0 ELSE 1

\* Python's order on the pairs (atom, value)
PairLess(p, q) ==
    \/ p[1] < q[1]
    \/ (p[1] = q[1] /\ ValueRank(p[2]) < ValueRank(q[2]))

RECURSIVE Insert(_, _)
Insert(p, sorted) ==
    IF sorted = <<>> THEN <<p>>
    ELSE IF PairLess(p, Head(sorted)) THEN <<p>> \o sorted
    ELSE <<Head(sorted)>> \o Insert(p, Tail(sorted))

\* sorted(example)
RECURSIVE Sorted(_)
Sorted(example) ==
    IF example = <<>> THEN <<>>
    ELSE Insert(example[Len(example)], Sorted(SubSeq(example, 1, Len(example) - 1)))

\* zip(*pairs): the tuple of atoms and the tuple of values
Unzip(pairs) ==
    [atoms  |-> [k \in 1..Len(pairs) |-> pairs[k][1]],
     values |-> [k \in 1..Len(pairs) |-> pairs[k][2]]]

EmptyDict == [k \in {} |-> <<>>]

\* result[atoms].append(values) on a defaultdict(list)
DictAppend(result, atoms, values) ==
    IF atoms \in DOMAIN result
    THEN [result EXCEPT ![atoms] = Append(@, values)]
    ELSE result @@ (atoms :> <<values>>)

\* _process_examples: ok = FALSE when unpacking zip(*sorted(example)) raises
\* ValueError, which it does for an example with no pair.
RECURSIVE ProcessExamples(_, _, _)
ProcessExamples(exs, i, result) ==
    IF i > Len(exs) THEN [ok |-> TRUE, result |-> result]
    ELSE IF exs[i] = <<>> THEN [ok |-> FALSE, result |-> result]
    ELSE LET z == Unzip(Sorted(exs[i]))
         IN  ProcessExamples(exs, i + 1, DictAppend(result, z.atoms, z.values))

\* the orders in which a dict may hand out its keys
KeyOrders(d) ==
    { f \in [1..Cardinality(DOMAIN d) -> DOMAIN d] :
        \A a, b \in 1..Cardinality(DOMAIN d) : a # b => f[a] # f[b] }

\* the (atoms, values) instances of a grouping, in the order of the two loops
RECURSIVE Instances(_, _, _)
Instances(grouped, order, g) ==
    IF g > Len(order) THEN <<>>
    ELSE [k \in 1..Len(grouped[order[g]]) |->
             [atoms |-> order[g], values |-> grouped[order[g]][k]]]
         \o Instances(grouped, order, g + 1)

\* sets of at most n elements of S
UpTo(S, n) == { T \in SUBSET S : Cardinality(T) <= n }

\* the evidence assignments ground() is called with
InstanceSet(grouped) ==
    { <<a, grouped[a][k]>> : <<a, k>> \in
        UNION { { <<b, j>> : j \in 1..Len(grouped[b]) } : b \in DOMAIN grouped } }

\* the names getNames(LABEL_QUERY) may report for a compiled program: ground
\* instances of the registered queries
NamesOf(qs, consts) ==
    UNION { { [functor |-> qs[k].functor, args |-> g] :
                g \in [1..Len(qs[k].args) -> consts] } : k \in 1..Len(qs) }

\* _compile_examples, given the order the dict hands out its groups, the
\* instances the grounder raises on, and the compiled program (its query
\* names, at most maxNames of them in RunPrepare) the knowledge compiler
\* returns for each instance.
\* ok = FALSE: ground() raised and the exception left _compile_examples.
CompileExamples(grouped, order, bad, progs) ==
    LET inst == Instances(grouped, order, 1)
    IN  IF \E k \in 1..Len(inst) : <<inst[k].atoms, inst[k].values>> \in bad
        THEN [ok |-> FALSE, result |-> <<>>]
        ELSE [ok |-> TRUE,
              result |-> [k \in 1..Len(inst) |->
                            [atoms |-> inst[k].atoms,
                             values |-> inst[k].values,
                             names |-> progs[k]]]]

\* run(): delta = 1000 and prev_score = -1e10
InitialDelta == 1000
InitialPrevScore == Big(-1, 0)

\* run(), up to the while loop: prepare() = _compile_examples(), which has
\* the engine traverse the rewritten program, groups the examples and grounds
\* and compiles each; then the two sentinels are set.  An exception of any of
\* the three leaves run().
RunPrepare(consts, maxNames) ==
    /\ pc = "constructed"
    /\ \E rnd \in [1..MaxDraws(source) -> RandomDraws] :
         LET st == Iter(source, 1, RewriteState(names, queries, weights, rnd))
             pe == ProcessExamples(examples, 1, EmptyDict)
         IN  /\ Rewrite(rnd)
             /\ IF ~st.ok \/ ~pe.ok
                THEN /\ pc' = "error"
                     /\ UNCHANGED <<compiled, delta, prev_score, ungroundable,
                                    groups>>
                ELSE \E order \in KeyOrders(pe.result) :
                     \E bad \in SUBSET InstanceSet(pe.result) :
                     \E progs \in [1..Len(examples) ->
                                     UpTo(NamesOf(st.queries, consts), maxNames)] :
                       LET ce == CompileExamples(pe.result, order, bad, progs)
                       IN  /\ groups' = pe.result
                           /\ ungroundable' = bad
                           /\ IF ce.ok
                              THEN /\ compiled' = ce.result
                                   /\ delta' = Big(0, InitialDelta)
                                   /\ prev_score' = InitialPrevScore
                                   /\ pc' = "loop"
                              ELSE /\ pc' = "error"
                                   /\ UNCHANGED <<compiled, delta, prev_score>>
    /\ UNCHANGED <<source, examples, max_iter, min_improv, iteration, results,
                   returned, evaluated, rounds, firstHit>>

-----------------------------------------------------------------------------
(* One round: _evaluate_examples, _update, step                            *)

\* An evidence probability is 0 or exp(-neglog).
ZeroProb == [kind |-> "zero", neglog |-> 0]
ExpProb(k) == [kind |-> "exp", neglog |-> k]

\* math.log raises ValueError at 0
LogDefined(p) == p.kind = "exp"
MathLog(p) == 0 - p.neglog

\* 1e-6
ClampBelow == <<1, 1000000>>

\* faulty variant: the floor also takes 1e-6 itself
ClampAtOrBelow(w) == IF ~RatLess(ClampBelow, w) THEN RatZero ELSE w

\* the if/else on w in _evaluate_examples
Clamp(w) == IF RatLess(w, ClampBelow) THEN RatZero ELSE w

\* _evaluate_examples, given what the evaluator computes for each compiled
\* example: raw[i] = [pEvidence, w], w a function on the example's names
EvaluateExamples(raw) ==
    [i \in DOMAIN raw |->
        [pEvidence |-> raw[i].pEvidence,
         pQueries  |-> [n \in DOMAIN raw[i].w |-> Clamp(raw[i].w[n])]]]

\* int(fact.split('(')[0].rsplit('_',1)[1])
IndexOf(fact) == fact.functor.suffix

\* faulty variant: an example counts once for a slot, however many values it reports
RECURSIVE AddFactsOncePerExample(_, _, _)
AddFactsOncePerExample(result, todo, acc) ==
    IF todo = {} THEN acc
    ELSE LET fact == CHOOSE f \in todo : TRUE
             index == IndexOf(fact) + 1
             seen == \E g \in DOMAIN result \ todo : IndexOf(g) + 1 = index
         IN  AddFactsOncePerExample(result, todo \ {fact},
                      [acc EXCEPT !.fact_marg[index] = RatAdd(@, result[fact]),
                                  !.fact_count[index] = IF seen THEN @ ELSE @ + 1])

\* the inner loop of _update over result.items(); slot index i is kept at
\* place i + 1 of the lists
RECURSIVE AddFacts(_, _, _)
AddFacts(result, todo, acc) ==
    IF todo = {} THEN acc
    ELSE LET fact == CHOOSE f \in todo : TRUE
             index == IndexOf(fact) + 1
         IN  AddFacts(result, todo \ {fact},
                      [acc EXCEPT !.fact_marg[index] = RatAdd(@, result[fact]),
                                  !.fact_count[index] = @ + 1])

\* the outer loop of _update; ok = FALSE when math.log raised
RECURSIVE Accumulate(_, _, _)
Accumulate(res, i, acc) ==
    IF i > Len(res) \/ ~acc.ok THEN acc
    ELSE LET a == AddFacts(res[i].pQueries, DOMAIN res[i].pQueries, acc)
         IN  IF LogDefined(res[i].pEvidence)
             THEN Accumulate(res, i + 1,
                             [a EXCEPT !.score = @ + MathLog(res[i].pEvidence)])
             ELSE [a EXCEPT !.ok = FALSE]

\* faulty variant: the sum of the values is stored, not their mean
NewWeightsSum(ws, acc) ==
    [index \in 1..Len(ws) |->
        IF acc.fact_count[index] > 0 THEN acc.fact_marg[index] ELSE ws[index]]

\* faulty variant: a slot nobody reported is reset to zero
NewWeightsReset(ws, acc) ==
    [index \in 1..Len(ws) |->
        IF acc.fact_count[index] > 0
        THEN RatDivInt(acc.fact_marg[index], acc.fact_count[index])
        ELSE RatZero]

\* the final loop of _update over range(0, self.count)
NewWeights(ws, acc) ==
    [index \in 1..Count(ws) |->
        IF acc.fact_count[index] > 0
        THEN RatDivInt(acc.fact_marg[index], acc.fact_count[index])
        ELSE ws[index]]

\* faulty variant: the weights are written although math.log raised
UpdateWritesBeforeLog(ws, res) ==
    LET acc == Accumulate(res, 1,
                   [fact_marg  |-> [k \in 1..Len(ws) |-> RatZero],
                    fact_count |-> [k \in 1..Len(ws) |-> 0],
                    score |-> 0, ok |-> TRUE])
    IN  [ok |-> acc.ok, weights |-> NewWeights(ws, acc),
         score |-> IF acc.ok THEN acc.score ELSE 0]

\* _update: [ok, weights, score]
Update(ws, res) ==
    LET acc == Accumulate(res, 1,
                   [fact_marg  |-> [k \in 1..Count(ws) |-> RatZero],
                    fact_count |-> [k \in 1..Count(ws) |-> 0],
                    score |-> 0, ok |-> TRUE])
    IN  IF acc.ok
        THEN [ok |-> TRUE, weights |-> NewWeights(ws, acc), score |-> acc.score]
        ELSE [ok |-> FALSE, weights |-> ws, score |-> 0]

\* what the evaluator may compute for the compiled examples
RawResults(comp, values, probs) ==
    { r \in [1..Len(comp) -> [pEvidence : probs,
                              w : UNION { [comp[k].names -> values] :
                                           k \in 1..Len(comp) }]] :
        \A k \in 1..Len(comp) : DOMAIN r[k].w = comp[k].names }

\* faulty variant: the loop goes on when delta equals min_improv
LoopGuardOrEqual(it, mx, d, md) == it < mx /\ ~BigGreater(md, d)

\* the condition of the while loop of run()
LoopGuard(it, mx, d, md) == it < mx /\ BigGreater(d, md)

\* One pass of the while loop of run(): step() and the two assignments.
Round(values, probs) ==
    /\ pc = "loop"
    /\ LoopGuard(iteration, max_iter, delta, min_improv)
    /\ \E raw \in RawResults(compiled, values, probs) :
         LET res == EvaluateExamples(raw)
             upd == Update(weights, res)
             score == Big(0, upd.score)
             d == BigSub(score, prev_score)
         IN  /\ iteration' = iteration + 1
             /\ evaluated' = raw
             /\ results' = res
             /\ weights' = upd.weights
             /\ IF upd.ok
                THEN /\ delta' = d
                     /\ prev_score' = score
                     /\ rounds' = rounds + 1
                     /\ firstHit' = IF firstHit = 0 /\ ~BigGreater(d, min_improv)
                                    THEN rounds + 1 ELSE firstHit
                     /\ pc' = "loop"
                ELSE /\ pc' = "error"
                     /\ UNCHANGED <<delta, prev_score, rounds, firstHit>>
    /\ UNCHANGED <<source, names, queries, examples, compiled, max_iter,
                   min_improv, returned, programs, groups, ungroundable>>

\* run() leaves the loop and run_lfi returns
Return ==
    /\ pc = "loop"
    /\ ~LoopGuard(iteration, max_iter, delta, min_improv)
    /\ returned' = [score |-> prev_score, weights |-> weights,
                    names |-> names, iteration |-> iteration]
    /\ pc' = "returned"
    /\ UNCHANGED <<source, names, queries, weights, examples, compiled, max_iter,
                   min_improv, iteration, delta, prev_score, results, programs,
                   groups, ungroundable, evaluated, rounds, firstHit>>

-----------------------------------------------------------------------------
(* Source programs tried                                                   *)

Half == <<1, 2>>
X == <<"X">>

SourceAtoms ==
    { Term("p", X, NoProbability),
      Term("p", X, Probability("t", <<Var>>)),
      Term("p", X, Probability("t", <<Constant(Half)>>)),
      Term("p", X, Probability("t", <<Var, Var>>)),
      Term("query", X, NoProbability),
      Term("query", X, Probability("t", <<Constant(Half)>>)),
      Term("query", <<"X", "Y">>, Probability("t", <<Constant(Half)>>)) }

\* the clauses, facts and annotated disjunctions with k head atoms
SourceClauses(k) ==
    (IF k = 1
     THEN { Clause(a, "b") : a \in SourceAtoms } \cup { Fact(a) : a \in SourceAtoms }
     ELSE {}) \cup
    { AnnotatedDisjunction(hs, "b") : hs \in [1..k -> SourceAtoms] }

\* the programs with at most n head atoms in all
RECURSIVE SourcesWithin(_)
SourcesWithin(n) ==
    { <<>> } \cup
    UNION { { <<c>> \o rest : c \in SourceClauses(k), rest \in SourcesWithin(n - k) } :
            k \in 1..n }

InitObject(src, exs, mi, md) ==
    /\ source = src
    /\ names = <<>>
    /\ queries = <<>>
    /\ weights = <<>>
    /\ examples = exs
    /\ compiled = None
    /\ max_iter = mi
    /\ min_improv = md
    /\ iteration = 0
    /\ delta = None
    /\ prev_score = None
    /\ results = None
    /\ pc = "constructed"
    /\ returned = None
    /\ programs = <<>>
    /\ groups = None
    /\ ungroundable = {}
    /\ evaluated = None
    /\ rounds = 0
    /\ firstHit = 0

-----------------------------------------------------------------------------
(* Specifications                                                          *)

\* Any number of traversals of any small program by a consumer.
InitRewrite ==
    \E src \in SourcesWithin(MaxAtoms) : InitObject(src, <<>>, 0, Big(0, 0))

NextRewrite == Traverse

SpecRewrite == InitRewrite /\ [][NextRewrite]_vars

LearnableFact == Fact(Term("p", X, Probability("t", <<Constant(Half)>>)))
RandomFact == Fact(Term("p", X, Probability("t", <<Var>>)))

\* the examples tried
ExampleChoices ==
    { <<>>,
      << <<1, "true">> >>,
      << <<1, "false">> >>,
      << <<1, "true">>, <<2, "false">> >>,
      << <<2, "false">>, <<1, "true">> >>,
      << <<2, "true">> >> }

RECURSIVE ListsOf(_, _)
ListsOf(S, n) ==
    IF n = 0 THEN { <<>> }
    ELSE LET shorter == ListsOf(S, n - 1)
         IN  shorter \cup { Append(l, x) : l \in { t \in shorter : Len(t) = n - 1 },
                                            x \in S }


\* prepare() on any small example list.
InitPrepare ==
    \E src \in { <<LearnableFact>>,
                 <<Fact(Term("p", X, Probability("t", <<Var, Var>>)))>> } :
    \E exs \in ListsOf(ExampleChoices, MaxExamples) :
        InitObject(src, exs, 1, Big(0, 0))

NextPrepare == RunPrepare({"a"}, 1)

SpecPrepare == InitPrepare /\ [][NextPrepare]_vars

\* run() on one or two copies of an example, for every max_iter and some
\* min_improv.
OneExample == << <<1, "true">> >>

MinImprovs == { Big(0, 0), Big(0, 1), Big(0, InitialDelta) }

InitRun ==
    \E mi \in 0..MaxIterBound :
    \E md \in MinImprovs :
    \E exs \in { <<OneExample>>, <<OneExample, OneExample>> } :
        InitObject(<<LearnableFact>>, exs, mi, md)

ProbsRun == { ZeroProb } \cup { ExpProb(k) : k \in 0..MaxNegLog }

NextRun ==
    \/ RunPrepare({"a"}, 1)
    \/ Round({ <<1, 1>> }, ProbsRun)
    \/ Return

SpecRun == InitRun /\ [][NextRun]_vars

\* one round on two examples and two slots, for every report of up to
\* MaxNames ground query atoms per example.
InitUpdate ==
    \E src \in { <<LearnableFact, RandomFact>> } :
        InitObject(src, << << <<1, "true">> >>, << <<1, "false">> >> >>, 1, Big(0, 0))

PosteriorsUpdate == { <<1, 2000000>>, ClampBelow, <<1, 1>> }

NextUpdate ==
    \/ RunPrepare({"a", "b"}, MaxNames)
    \/ Round(PosteriorsUpdate, { ZeroProb, ExpProb(1) })
    \/ Return

SpecUpdate == InitUpdate /\ [][NextUpdate]_vars

\* three rounds on one example and two slots, the first slot starting at 0.5
\* or, out of range, at 1.5; min_improv = -1e10 never stops the loop
OutOfRangeFact == Fact(Term("p", X, Probability("t", <<Constant(<<3, 2>>)>>)))

InitWeights ==
    \E src \in { <<LearnableFact, RandomFact>>, <<OutOfRangeFact, RandomFact>> } :
        InitObject(src, <<OneExample>>, 3, Big(-1, 0))

PosteriorsWeights == { <<1, 2000000>>, <<1, 2>>, <<1, 1>> }

NextWeights ==
    \/ RunPrepare({"a", "b"}, MaxNames)
    \/ Round(PosteriorsWeights, { ZeroProb, ExpProb(0) })
    \/ Return

SpecWeights == InitWeights /\ [][NextWeights]_vars

-----------------------------------------------------------------------------
(* Properties of the convergence loop                                      *)

Min(a, b) == IF a < b THEN a ELSE b

\* C1: when run_lfi returns, the number of rounds executed is
\* min(max_iter, k), k the first round whose delta <= min_improv (max_iter
\* when no executed round had such a delta), and the iteration count
\* returned is that number of rounds.
C1_RoundsExecuted ==
    pc = "returned" =>
        /\ rounds = IF firstHit = 0 THEN max_iter ELSE Min(max_iter, firstHit)
        /\ returned.iteration = rounds

\* C2 as stated: with min_improv = 1.0 and max_iter = 5, run() returns after
\* exactly one round.
C2_ExactlyOneRound ==
    (pc = "returned" /\ max_iter = 5 /\ min_improv = Big(0, 1)) =>
        returned.iteration = 1

\* C2 amended: with min_improv = 1.0 and max_iter = 5, run() executes at
\* least two and at most five rounds: the delta of round 1 is taken against
\* the sentinel -1e10 and exceeds 1.0, and the loop stops after the first
\* round whose delta is <= 1.0, or after round 5.
C2_TwoToFiveRounds ==
    (pc = "returned" /\ max_iter = 5 /\ min_improv = Big(0, 1)) =>
        /\ returned.iteration = rounds
        /\ rounds >= 2 /\ rounds <= 5
        /\ firstHit # 1
        /\ rounds = IF firstHit = 0 THEN 5 ELSE firstHit
        /\ (rounds < 5 => ~BigGreater(delta, min_improv))

C2_Witness ==
    /\ pc = "returned" /\ max_iter = 5 /\ min_improv = Big(0, 1)
    /\ returned.iteration = 3
    /\ firstHit = 3

-----------------------------------------------------------------------------
(* Properties of the rewriter                                              *)

\* the learnable heads of a clause, in order
LearnableHeads(clause) == SelectSeq(clause.heads, IsLearnable)

\* every t(...) occurrence of a program, in traversal order
RECURSIVE AllOccurrences(_)
AllOccurrences(src) ==
    IF src = <<>> THEN <<>>
    ELSE LearnableHeads(Head(src)) \o AllOccurrences(Tail(src))

\* a clause or fact that declares a query/1 is dropped by the rewriter
IsDropped(clause) ==
    /\ clause.kind \in {"Clause", "Term"}
    /\ clause.heads[1].functor = "query"
    /\ Len(clause.heads[1].args) = 1

\* the t(...) occurrences outside dropped query/1 declarations
RECURSIVE KeptOccurrences(_)
KeptOccurrences(src) ==
    IF src = <<>> THEN <<>>
    ELSE (IF IsDropped(Head(src)) THEN <<>> ELSE LearnableHeads(Head(src)))
         \o KeptOccurrences(Tail(src))

HasLfiProbability(atom) ==
    /\ atom.probability # NoProbability
    /\ atom.probability.functor = "lfi"

\* the heads of a yielded program that carry an lfi(i) probability, in order
RECURSIVE ReplacedHeads(_)
ReplacedHeads(prog) ==
    IF prog = <<>> THEN <<>>
    ELSE (IF Head(prog).kind = "query" THEN <<>>
          ELSE SelectSeq(Head(prog).heads, HasLfiProbability))
         \o ReplacedHeads(Tail(prog))

NumQueryDecls(prog) == Len(SelectSeq(prog, LAMBDA c : c.kind = "query"))

\* C3: every traversal yields the same rewritten program (the same
\* lfi_fact_i / lfi(i) for the same source atom) as the first one, and the
\* number of weights stays what the first full traversal made it.
C3_TraversalsAgree ==
    /\ \A i \in 1..Len(programs) : programs[i] = programs[1]
    /\ (Len(programs) >= 1 /\ programs[1].completed) =>
           Count(weights) = NumQueryDecls(programs[1].clauses)

\* C4 as stated: after the rewriting the number of slots is the number of
\* t(...) occurrences of the source program.
C4_SlotPerOccurrence ==
    (Len(programs) = 1 /\ programs[1].completed) =>
        Count(weights) = Len(AllOccurrences(source))

\* C4 amended: after the first full traversal the number of slots is the
\* number of t(...) occurrences that are not on a dropped query/1 clause head
\* or fact; the k-th of them (from 0) owns slot k: names[k] is that atom,
\* queries[k] is lfi_fact_k on its arguments, the rewritten head is
\* lfi(k)::lfi_fact_k, and names, queries and weights have length count.
C4_SlotPerKeptOccurrence ==
    (Len(programs) = 1 /\ programs[1].completed) =>
        LET occ == KeptOccurrences(source)
            heads == ReplacedHeads(programs[1].clauses)
        IN  /\ Count(weights) = Len(occ)
            /\ Len(names) = Len(occ)
            /\ Len(queries) = Len(occ)
            /\ Len(heads) = Len(occ)
            /\ NumQueryDecls(programs[1].clauses) = Len(occ)
            /\ \A k \in 1..Len(occ) :
                 /\ names[k] = occ[k]
                 /\ queries[k] = Term(LfiFactFunctor(k - 1), occ[k].args,
                                      NoProbability)
                 /\ heads[k] = Term(LfiFactFunctor(k - 1), occ[k].args,
                                    LfiProb(k - 1))

C4_Witness ==
    /\ Len(programs) = 1 /\ programs[1].completed
    /\ Count(weights) = 2
    /\ \E c \in 1..Len(source) : source[c].kind = "AnnotatedDisjunction"
                                 /\ Len(source[c].heads) = 2

-----------------------------------------------------------------------------
(* Properties of a round                                                   *)

\* the reports for slot i (from 0) in a list of results: one per example
\* and ground query atom
Reports(res, i) ==
    UNION { { <<k, n>> : n \in { m \in DOMAIN res[k].pQueries : IndexOf(m) = i } } :
            k \in 1..Len(res) }

\* the examples that report at least one value for slot i
Reporters(res, i) == { r[1] : r \in Reports(res, i) }

RECURSIVE SumReports(_, _)
SumReports(res, todo) ==
    IF todo = {} THEN RatZero
    ELSE LET r == CHOOSE x \in todo : TRUE
         IN  RatAdd(res[r[1]].pQueries[r[2]], SumReports(res, todo \ {r}))

\* the last round completed (results then is the list it evaluated)
RoundDone == rounds >= 1 /\ pc # "error"

\* C5 as stated: after _update a slot that received a value holds the sum of
\* the values attributed to it divided by the number of examples that
\* reported a value for it.
C5_MeanOverExamples ==
    RoundDone =>
        \A i \in 0..(Count(weights) - 1) :
            Reports(results, i) # {} =>
                weights[i + 1] = RatDivInt(SumReports(results, Reports(results, i)),
                                           Cardinality(Reporters(results, i)))

\* C5 amended: after _update a slot that received a value holds the sum of
\* the values attributed to it divided by the number of values attributed to
\* it, an example that reports several ground query atoms of the slot
\* counting once for each of them.
C5_MeanOverReports ==
    RoundDone =>
        \A i \in 0..(Count(weights) - 1) :
            Reports(results, i) # {} =>
                weights[i + 1] = RatDivInt(SumReports(results, Reports(results, i)),
                                           Cardinality(Reports(results, i)))

C5_Witness ==
    /\ RoundDone
    /\ \E k \in 1..Len(results) :
         \E n, m \in DOMAIN results[k].pQueries :
            /\ n # m /\ IndexOf(n) = 0 /\ IndexOf(m) = 0
            /\ results[k].pQueries[n] = <<1, 1>>
            /\ results[k].pQueries[m] = RatZero
    /\ weights[1] = <<1, 2>>

\* C6: a round that completes leaves every slot no example reported a value
\* for at the value it had before the round.
C6_UnreportedSlotKept ==
    [][ rounds' = rounds + 1 =>
          \A i \in 0..(Count(weights) - 1) :
              Reports(results', i) = {} => weights'[i + 1] = weights[i + 1] ]_vars

C6_Witness ==
    /\ RoundDone
    /\ Reports(results, 1) = {}
    /\ Reports(results, 0) # {}
    /\ weights[2] = <<3, 4>>
    /\ weights[1] = <<1, 1>>

ZeroEvidence(raw) == \E k \in 1..Len(raw) : raw[k].pEvidence = ZeroProb

\* C8: a round in which some example's evidence probability is zero ends in
\* the error that leaves run(), and the weights then are those of the start
\* of the round.
C8_FailedRoundKeepsWeights ==
    /\ [](evaluated # None /\ ZeroEvidence(evaluated) => pc = "error")
    /\ [][ (pc = "loop" /\ pc' = "error") =>
              /\ ZeroEvidence(evaluated')
              /\ weights' = weights ]_vars

C8_Witness ==
    /\ pc = "error"
    /\ evaluated # None
    /\ evaluated[1].pEvidence = ExpProb(1)
    /\ evaluated[2].pEvidence = ZeroProb
    /\ \E n \in DOMAIN results[1].pQueries :
          IndexOf(n) = 0 /\ results[1].pQueries[n] = <<1, 1>>
    /\ weights[1] = <<1, 2>>

\* C10: every posterior _evaluate_examples reports is 0.0 or at least 1e-6:
\* an evaluated posterior below 1e-6 is reported as 0.0, any other unchanged.
C10_Clamped ==
    results # None =>
        \A k \in 1..Len(results) :
            \A n \in DOMAIN results[k].pQueries :
                LET r == results[k].pQueries[n]
                    w == evaluated[k].w[n]
                IN  /\ r = RatZero \/ ~RatLess(r, ClampBelow)
                    /\ RatLess(w, ClampBelow) => r = RatZero
                    /\ ~RatLess(w, ClampBelow) => r = w

C10_Witness ==
    /\ results # None
    /\ \E k \in 1..Len(results) :
         \E n, m \in DOMAIN results[k].pQueries :
            /\ evaluated[k].w[n] = <<1, 2000000>> /\ results[k].pQueries[n] = RatZero
            /\ evaluated[k].w[m] = <<1, 1000000>> /\ results[k].pQueries[m] = <<1, 1000000>>
    /\ \E k \in 1..Len(results) :
         \E n \in DOMAIN results[k].pQueries : results[k].pQueries[n] = <<1, 1>>

-----------------------------------------------------------------------------
(* Properties of the example compiler                                      *)

RECURSIVE GroupTotal(_, _)
GroupTotal(grouped, keys) ==
    IF keys = {} THEN 0
    ELSE LET k == CHOOSE x \in keys : TRUE
         IN  Len(grouped[k]) + GroupTotal(grouped, keys \ {k})

\* the set of atoms an example constrains
AtomSet(example) == { example[k][1] : k \in 1..Len(example) }
KeySet(key) == { key[k] : k \in 1..Len(key) }

Rewritten == Len(programs) >= 1 /\ programs[1].completed

\* C7: once prepare() has been called on a program that rewrites, the
\* examples are grouped by their atom set, the sizes of the groups sum to
\* the number of examples, and (when the grounder accepts every example)
\* there is one compiled example per example.
C7_GroupingPartition ==
    (pc # "constructed" /\ Rewritten) =>
        /\ groups # None
        /\ GroupTotal(groups, DOMAIN groups) = Len(examples)
        /\ \A e \in 1..Len(examples) :
             \E key \in DOMAIN groups : KeySet(key) = AtomSet(examples[e])
        /\ ungroundable = {} =>
             (compiled # None /\ Len(compiled) = Len(examples))

\* C9: when the grounder fails on some examples, run() is not aborted and
\* the other examples are compiled.
C9_GroundingFailureIsolated ==
    (pc # "constructed" /\ ungroundable # {}) =>
        /\ pc # "error"
        /\ compiled # None
        /\ { <<compiled[k].atoms, compiled[k].values>> : k \in 1..Len(compiled) }
             = InstanceSet(groups) \ ungroundable

-----------------------------------------------------------------------------
(* Range of the weights                                                    *)

\* 0 <= v <= 1 for a rational with a positive denominator
InUnit(v) == v[1] >= 0 /\ v[1] <= v[2]

\* the start values written in the source: the arguments of t(...) that are
\* constants
StartValues(src) ==
    { AllOccurrences(src)[k].probability.args[1].value :
        k \in { j \in 1..Len(AllOccurrences(src)) :
                  /\ Len(AllOccurrences(src)[j].probability.args) = 1
                  /\ IsConstant(AllOccurrences(src)[j].probability.args[1]) } }

StartsInUnit == \A v \in StartValues(source) : InUnit(v)

\* C11: with every start value in [0,1] (and the evaluator's posteriors in
\* [0,1]) every weight is in [0,1] in every state, whatever the number of
\* rounds; and after a round that completes, a slot that round updated is in
\* [0,1] even when its start value was not.
C11_WeightsInUnit ==
    /\ StartsInUnit => \A k \in 1..Count(weights) : InUnit(weights[k])
    /\ RoundDone =>
         \A i \in 0..(Count(weights) - 1) :
             Reports(results, i) # {} => InUnit(weights[i + 1])

C11_Witness ==
    /\ source = <<OutOfRangeFact, RandomFact>>
    /\ rounds = 3
    /\ pc = "loop"
    /\ Reports(results, 0) # {} /\ Reports(results, 1) = {}
    /\ weights[1] = <<3, 4>>
    /\ InUnit(weights[2])

=============================================================================
